---- MODULE Spec2Model ----
(***************************************************************************)
(* A model of resources/serverless/code-web.js: the development web server *)
(* of the editor (request router, file server, callback relay, document    *)
(* assembler) and its start-up extension discovery.                        *)
(*                                                                         *)
(* JavaScript strings are sequences of one-character strings, so that the  *)
(* string operations of the code (decodeURIComponent, path.normalize,      *)
(* indexOf, join('-')) are computed and not assumed.  The value undefined  *)
(* and a thrown URIError are one-element sequences whose element is no     *)
(* character; they differ from every string.                               *)
(*                                                                         *)
(* The node process runs one callback at a time: an action of the model is *)
(* the code that runs between two suspension points (await, I/O callback). *)
(***************************************************************************)
EXTENDS Integers, Sequences, FiniteSets, TLC

\* Bounds of the model.
MaxReq == 3        \* requests to the callback relay in one run
MaxFileReq == 2    \* requests to the file server in one run
MaxMtime == 1      \* latest modification time the environment sets
MaxFolders == 2    \* entries of the extensions directory
MaxNum == 11       \* largest inode, size and time a token is computed from

VARIABLES
    reqs,            \* the requests accepted so far, in arrival order
    mapCallbackUriToRequestId,   \* line 130: request id -> serialized descriptor
    fs,              \* the files the server reads: path -> [kind, ino, size, mtime]
    alive,           \* the node process has not died of an uncaught exception
    rejectionMode,   \* what this node build does with an unhandled rejection
    extDisk,         \* the extensions directory as initialize() finds it
    tasks,           \* where the per-folder callback of line 70 stands, per entry
    builtinExtensions,         \* line 66: the catalog being built
    unbuiltExensions,          \* line 63
    builtinExtensionsPromise,  \* line 128: "pending", "fulfilled" or "rejected"
    probe            \* the arguments and results of a function applied on its own

serverVars == <<reqs, mapCallbackUriToRequestId, fs, alive, rejectionMode>>
discoveryVars == <<extDisk, tasks, builtinExtensions, unbuiltExensions,
                   builtinExtensionsPromise>>
vars == <<reqs, mapCallbackUriToRequestId, fs, alive, rejectionMode, extDisk, tasks,
          builtinExtensions, unbuiltExensions, builtinExtensionsPromise, probe>>

----------------------------------------------------------------------------
\* JavaScript values

undefined == <<"undefined">>
URIError == <<"URIError">>

\* JavaScript truthiness of a string or undefined
Truthy(v) == v # undefined /\ v # <<>>

IsPrefix(p, s) == Len(p) <= Len(s) /\ SubSeq(s, 1, Len(p)) = p

\* s.substr(n) for a zero-based n
substr(s, n) == SubSeq(s, n + 1, Len(s))

\* The character a percent escape stands for, "" when the two characters are
\* no escape of the model's alphabet (not two hex digits).
HexPair(a, b) ==
    CASE <<a, b>> = <<"2", "5">> -> "%"
      [] <<a, b>> \in {<<"2", "F">>, <<"2", "f">>} -> "/"
      [] <<a, b>> \in {<<"2", "E">>, <<"2", "e">>} -> "."
      [] <<a, b>> = <<"6", "1">> -> "a"
      [] <<a, b>> = <<"6", "2">> -> "b"
      [] OTHER -> ""

\* the members of a set of indices in increasing order
Ascending(S) ==
    [k \in 1..Cardinality(S) |-> CHOOSE i \in S : Cardinality({j \in S : j <= i}) = k]

\* decodeURIComponent: every %XX is replaced by its character; a % that is
\* not followed by two hex digits throws URIError.  (A hex digit is no %, so
\* every % of the string starts an escape.)
decodeURIComponent(s) ==
    LET n == Len(s)
        malformed == \E i \in 1..n :
                        s[i] = "%" /\ (i + 2 > n \/ HexPair(s[i + 1], s[i + 2]) = "")
        kept == Ascending({i \in 1..n : /\ ~(i > 1 /\ s[i - 1] = "%")
                                        /\ ~(i > 2 /\ s[i - 2] = "%")})
    IN  IF malformed THEN URIError
        ELSE [k \in 1..Len(kept) |->
                 IF s[kept[k]] = "%" THEN HexPair(s[kept[k] + 1], s[kept[k] + 2])
                 ELSE s[kept[k]]]

----------------------------------------------------------------------------
\* path (POSIX)

sep == "/"

\* the segments of s between separators
Split(s) ==
    LET at == Ascending({i \in 1..Len(s) : s[i] = sep})
        n == Len(at)
    IN  [k \in 1..(n + 1) |->
            SubSeq(s, IF k = 1 THEN 1 ELSE at[k - 1] + 1,
                      IF k = n + 1 THEN Len(s) ELSE at[k] - 1)]

RECURSIVE JoinSegs(_)
JoinSegs(segs) ==
    IF segs = <<>> THEN <<>>
    ELSE IF Len(segs) = 1 THEN Head(segs)
    ELSE Head(segs) \o <<sep>> \o JoinSegs(Tail(segs))

\* path.normalize's normalizeString: drops empty and "." segments, and lets
\* ".." remove the segment before it (kept above a relative path's start).
RECURSIVE normalizeString(_, _, _)
normalizeString(segs, acc, allowAboveRoot) ==
    IF segs = <<>> THEN acc
    ELSE LET s == Head(segs)
             next ==
                 IF s = <<>> \/ s = <<".">> THEN acc
                 ELSE IF s = <<".", ".">>
                 THEN IF acc # <<>> /\ acc[Len(acc)] # <<".", ".">>
                      THEN SubSeq(acc, 1, Len(acc) - 1)
                      ELSE IF allowAboveRoot THEN Append(acc, s) ELSE acc
                 ELSE Append(acc, s)
         IN  normalizeString(Tail(segs), next, allowAboveRoot)

normalize(p) ==
    IF p = <<>> THEN <<".">>
    ELSE LET isAbsolute == p[1] = sep
             trailingSeparator == p[Len(p)] = sep
             body == JoinSegs(normalizeString(Split(p), <<>>, ~isAbsolute))
         IN  IF body = <<>>
             THEN IF isAbsolute THEN <<sep>>
                  ELSE IF trailingSeparator THEN <<".", "/">> ELSE <<".">>
             ELSE (IF isAbsolute THEN <<sep>> ELSE <<>>) \o body
                  \o (IF trailingSeparator THEN <<sep>> ELSE <<>>)

\* path.join of two arguments: empty arguments are skipped
join(a, b) ==
    IF a = <<>> /\ b = <<>> THEN <<".">>
    ELSE IF b = <<>> THEN normalize(a)
    ELSE IF a = <<>> THEN normalize(b)
    ELSE normalize(a \o <<sep>> \o b)

\* the last index of character c in s, 0 when there is none
LastIndexOf(s, c) ==
    LET at == {i \in 1..Len(s) : s[i] = c}
    IN  IF at = {} THEN 0 ELSE CHOOSE i \in at : \A j \in at : j <= i

RECURSIVE StripTrailingSeps(_)
StripTrailingSeps(p) ==
    IF Len(p) > 1 /\ p[Len(p)] = sep
    THEN StripTrailingSeps(SubSeq(p, 1, Len(p) - 1))
    ELSE p

\* path.extname: from the last "." of the last segment, "" when that segment
\* has no "." or only a leading one
extname(p) ==
    LET q == StripTrailingSeps(p)
        base == substr(q, LastIndexOf(q, sep))
        dot == LastIndexOf(base, ".")
    IN  IF dot <= 1 \/ base = <<".", ".">> THEN <<>> ELSE SubSeq(base, dot, Len(base))

APP_ROOT == <<"/", "w">>
EXTENSIONS_ROOT == join(APP_ROOT, <<"e", "x", "t", "e", "n", "s", "i", "o", "n", "s">>)
WEB_MAIN == join(APP_ROOT, <<"s", "r", "c", "/", "v", "s", "/", "c", "o", "d", "e", "/", "b", "r", "o", "w", "s", "e", "r", "/", "w", "o", "r", "k", "b", "e", "n", "c", "h", "/", "w", "o", "r", "k", "b", "e", "n", "c", "h", "-", "d", "e", "v", ".", "h", "t", "m", "l">>)
FAVICON == join(APP_ROOT, <<"r", "e", "s", "o", "u", "r", "c", "e", "s", "/", "w", "i", "n", "3", "2", "/", "c", "o", "d", "e", ".", "i", "c", "o">>)
CALLBACK_HTML == join(APP_ROOT, <<"r", "e", "s", "o", "u", "r", "c", "e", "s", "/", "s", "e", "r", "v", "e", "r", "l", "e", "s", "s", "/", "c", "a", "l", "l", "b", "a", "c", "k", ".", "h", "t", "m", "l">>)

----------------------------------------------------------------------------
\* The file system the server reads.  kind is "file", "dir" or "none".

File(ino, size, mtime) == [kind |-> "file", ino |-> ino, size |-> size, mtime |-> mtime]
Dir(ino) == [kind |-> "dir", ino |-> ino, size |-> 0, mtime |-> 0]

STATIC_JS == join(APP_ROOT, <<"a", ".", "j", "s">>)          \* a file served under /static/
SRC_DIR == join(APP_ROOT, <<"s", "r", "c">>)             \* a directory below the root
EXT_JS == join(EXTENSIONS_ROOT, <<"x", "/", "m", ".", "j", "s">>)    \* a file of extension x
SIBLING_JS == <<"/", "w", "2", "/", "s", ".", "j", "s">>                     \* a file beside the root, outside it

InitialFs ==
    (STATIC_JS :> File(11, 1, 0)) @@ (SRC_DIR :> Dir(12)) @@
    (EXTENSIONS_ROOT :> Dir(13)) @@ (EXT_JS :> File(14, 2, 0)) @@
    (SIBLING_JS :> File(15, 1, 0)) @@ (FAVICON :> File(16, 2, 0)) @@
    (CALLBACK_HTML :> File(17, 2, 0)) @@ (WEB_MAIN :> File(18, 2, 0)) @@
    (APP_ROOT :> Dir(10))

ENOENT == [ok |-> FALSE, ino |-> 0, size |-> 0, mtime |-> 0]

\* fs.stat: a path ending in a separator names a directory
stat(files, p) ==
    LET q == StripTrailingSeps(p)
    IN  IF q \notin DOMAIN files \/ files[q].kind = "none" THEN ENOENT
        ELSE IF q # p /\ files[q].kind # "dir" THEN ENOENT
        ELSE [ok |-> TRUE, ino |-> files[q].ino, size |-> files[q].size,
              mtime |-> files[q].mtime]

\* fs.createReadStream: the stream opens and reads a regular file only
Readable(files, p) ==
    LET q == StripTrailingSeps(p)
    IN  q = p /\ q \in DOMAIN files /\ files[q].kind = "file"

----------------------------------------------------------------------------
\* The validation token, line 413

Digit(d) ==
    CASE d = 0 -> "0" [] d = 1 -> "1" [] d = 2 -> "2" [] d = 3 -> "3"
      [] d = 4 -> "4" [] d = 5 -> "5" [] d = 6 -> "6" [] d = 7 -> "7"
      [] d = 8 -> "8" [] d = 9 -> "9"

RECURSIVE NatToString(_)
NatToString(n) ==
    IF n < 10 THEN <<Digit(n)>>
    ELSE NatToString(n \div 10) \o <<Digit(n % 10)>>

\* Number.prototype.toString of an integer
NumberToString(n) == IF n < 0 THEN <<"-">> \o NatToString(-n) ELSE NatToString(n)

\* (mutant) the three numbers joined with no separator
JoinDash_NoSeparator(a, b, c) ==
    NumberToString(a) \o NumberToString(b) \o NumberToString(c)

\* Array.prototype.join of three numbers
JoinDash(a, b, c) ==
    NumberToString(a) \o <<"-">> \o NumberToString(b) \o <<"-">> \o NumberToString(c)

etag(st) == <<"W", "/", "\"">> \o JoinDash(st.ino, st.size, st.mtime) \o <<"\"">>

----------------------------------------------------------------------------
\* Content types, lines 364-393

textMimeType(ext) ==
    CASE ext = <<".", "h", "t", "m", "l">> -> "text/html"
      [] ext = <<".", "j", "s">> -> "text/javascript"
      [] ext = <<".", "j", "s", "o", "n">> -> "application/json"
      [] ext = <<".", "c", "s", "s">> -> "text/css"
      [] ext = <<".", "s", "v", "g">> -> "image/svg+xml"
      [] OTHER -> ""

LowerChar(c) ==
    CASE c = "I" -> "i" [] c = "C" -> "c" [] c = "O" -> "o" [] c = "P" -> "p"
      [] c = "N" -> "n" [] c = "G" -> "g" [] c = "J" -> "j" [] OTHER -> c

toLowerCase(s) == [i \in 1..Len(s) |-> LowerChar(s[i])]

mapExtToMediaMimes(ext) ==
    CASE ext = <<".", "b", "m", "p">> -> "image/bmp"
      [] ext = <<".", "g", "i", "f">> -> "image/gif"
      [] ext = <<".", "i", "c", "o">> -> "image/x-icon"
      [] ext \in {<<".", "j", "p", "e">>, <<".", "j", "p", "e", "g">>, <<".", "j", "p", "g">>} -> "image/jpg"
      [] ext = <<".", "p", "n", "g">> -> "image/png"
      [] ext = <<".", "t", "g", "a">> -> "image/x-tga"
      [] ext \in {<<".", "t", "i", "f">>, <<".", "t", "i", "f", "f">>} -> "image/tiff"
      [] ext = <<".", "w", "o", "f", "f">> -> "application/font-woff"
      [] OTHER -> ""

getMediaMime(forPath) == mapExtToMediaMimes(toLowerCase(extname(forPath)))

\* line 420
ContentTypeOf(filePath) ==
    IF textMimeType(extname(filePath)) # "" THEN textMimeType(extname(filePath))
    ELSE IF getMediaMime(filePath) # "" THEN getMediaMime(filePath)
    ELSE "text/plain"

----------------------------------------------------------------------------
\* Requests and responses

\* A response: status 0 while nothing was written; ctype "" and etag undefined
\* when the header is not set; text is a body written by the server itself,
\* data the serialized descriptor sent by /fetch-callback or the document
NoResponse == [status |-> 0, ctype |-> "", etag |-> undefined, text |-> "", data |-> <<>>]

Response(status, ctype, text) ==
    [status |-> status, ctype |-> ctype, etag |-> undefined, text |-> text, data |-> <<>>]

\* A request as the handler of line 132 receives it.  pc is where its handler
\* stands: "stat" (serveFile awaits fs.stat), "open" (the read stream is
\* created and not yet opened), "catalog" and "template" (handleRoot awaits),
\* "done", "threw" (a synchronous exception), "rejected" (the promise of an
\* async handler was rejected: nothing was written and nothing will be)
NewRequest(u, route) ==
    [url |-> u, route |-> route, pc |-> "done", filePath |-> <<>>,
     stat |-> ENOENT, res |-> NoResponse, stream |-> "none", io |-> {}]

EmptyBody(res) == res.text = "" /\ res.data = <<>>

\* serveError, lines 359-362
serveError(r, errorCode, errorMessage) ==
    [r EXCEPT !.res = Response(errorCode, "text/plain", errorMessage), !.pc = "done"]

\* (mutant) the containment check without the separator
InsideAppRoot_NoSeparator(filePath) == IsPrefix(APP_ROOT, filePath)

\* (mutant) the containment check made against the extensions root
InsideAppRoot_ExtensionsRoot(filePath) ==
    IsPrefix(APP_ROOT \o <<sep>> \o <<"e", "x", "t", "e", "n", "s", "i", "o", "n", "s">> \o <<sep>>, filePath)

\* The containment check of line 405 on a normalized path
InsideAppRoot(filePath) == IsPrefix(APP_ROOT \o <<sep>>, filePath)

\* serveFile up to its first await, lines 400-410
serveFile(r, filePath) ==
    LET normalized == normalize(filePath)
    IN  IF ~InsideAppRoot(normalized)
        THEN serveError([r EXCEPT !.filePath = normalized], 400, "Bad request.")
        ELSE [r EXCEPT !.filePath = normalized, !.pc = "stat", !.io = {"stat"}]

\* (mutant) serveFile without the If-None-Match test of line 414
AfterStat_NoConditional(r, st) ==
    IF ~st.ok
    THEN [r EXCEPT !.res = Response(404, "text/plain", "Not found"), !.pc = "done"]
    ELSE [r EXCEPT !.stat = st,
                   !.res = [Response(200, ContentTypeOf(r.filePath), "")
                               EXCEPT !.etag = etag(st)],
                   !.pc = "open", !.io = @ \cup {"open"}]

\* (mutant) serveFile without the Etag header of line 421
AfterStat_NoEtagHeader(r, st) ==
    IF ~st.ok
    THEN [r EXCEPT !.res = Response(404, "text/plain", "Not found"), !.pc = "done"]
    ELSE IF r.url.inm = etag(st)
    THEN [r EXCEPT !.stat = st, !.res = Response(304, "", ""), !.pc = "done"]
    ELSE [r EXCEPT !.stat = st,
                   !.res = Response(200, ContentTypeOf(r.filePath), ""),
                   !.pc = "open", !.io = @ \cup {"open"}]

\* serveFile after fs.stat has answered, lines 410-431
AfterStat(r, st) ==
    IF ~st.ok
    THEN [r EXCEPT !.res = Response(404, "text/plain", "Not found"), !.pc = "done"]
    ELSE IF r.url.inm = etag(st)
    THEN [r EXCEPT !.stat = st, !.res = Response(304, "", ""), !.pc = "done"]
    ELSE [r EXCEPT !.stat = st,
                   !.res = [Response(200, ContentTypeOf(r.filePath), "")
                               EXCEPT !.etag = etag(st)],
                   !.pc = "open", !.io = @ \cup {"open"}]

----------------------------------------------------------------------------
\* The query of a parsed URL: the key=value pairs in the order they occur
\* (url.parse(_, true) makes a repeated key an array of its values).

\* getFirstQueryValue, lines 320-323
RECURSIVE getFirstQueryValue(_, _)
getFirstQueryValue(query, key) ==
    IF query = <<>> THEN undefined
    ELSE IF Head(query)[1] = key THEN Head(query)[2]
    ELSE getFirstQueryValue(Tail(query), key)

\* The keys of the query object in the order they were created
RECURSIVE CreatedKeys(_, _)
CreatedKeys(query, seen) ==
    IF query = <<>> THEN <<>>
    ELSE LET key == Head(query)[1]
         IN  IF key \in seen THEN CreatedKeys(Tail(query), seen)
             ELSE <<key>> \o CreatedKeys(Tail(query), seen \cup {key})

Digits == {"0", "1", "2", "3", "4", "5", "6", "7", "8", "9"}

\* a < b for two decimal numerals without leading zeros
NumeralLess(a, b) ==
    \/ Len(a) < Len(b)
    \/ /\ Len(a) = Len(b)
       /\ \E i \in 1..Len(a) :
             /\ SubSeq(a, 1, i - 1) = SubSeq(b, 1, i - 1)
             /\ \E x, y \in 0..9 : Digit(x) = a[i] /\ Digit(y) = b[i] /\ x < y

\* A property key that is an array index: the canonical numeral of an
\* integer below 2^32 - 1
IsArrayIndex(key) ==
    /\ key # <<>>
    /\ \A i \in 1..Len(key) : key[i] \in Digits
    /\ Len(key) = 1 \/ key[1] # "0"
    /\ NumeralLess(key, <<"4", "2", "9", "4", "9", "6", "7", "2", "9", "5">>)

\* for (const key in parsedUrl.query), line 333: the own keys of an object
\* are enumerated with the array indices first, in ascending numeric order,
\* and the other keys after them in the order they were created
ForInKeys(query) ==
    LET created == CreatedKeys(query, {})
    IN  SortSeq(SelectSeq(created, IsArrayIndex), NumeralLess)
        \o SelectSeq(created, LAMBDA key : ~IsArrayIndex(key))

\* getFirstQueryValues, lines 330-345: the first value of every enumerated
\* key that is not ignored, a Map in the order of the enumeration
getFirstQueryValues(query, ignoreKeys) ==
    LET kept == SelectSeq(ForInKeys(query), LAMBDA key : key \notin ignoreKeys)
    IN  [i \in 1..Len(kept) |-> <<kept[i], getFirstQueryValue(query, kept[i])>>]

K_requestId == <<"v", "s", "c", "o", "d", "e", "-", "r", "e", "q", "u", "e", "s", "t", "I", "d">>
K_scheme == <<"v", "s", "c", "o", "d", "e", "-", "s", "c", "h", "e", "m", "e">>
K_authority == <<"v", "s", "c", "o", "d", "e", "-", "a", "u", "t", "h", "o", "r", "i", "t", "y">>
K_path == <<"v", "s", "c", "o", "d", "e", "-", "p", "a", "t", "h">>
K_query == <<"v", "s", "c", "o", "d", "e", "-", "q", "u", "e", "r", "y">>
K_fragment == <<"v", "s", "c", "o", "d", "e", "-", "f", "r", "a", "g", "m", "e", "n", "t">>

wellKnownKeys == <<K_requestId, K_scheme, K_authority, K_path, K_query, K_fragment>>

\* JSON.stringify of the descriptor object: the members that are not
\* undefined, in the order of the object literal of line 289
RECURSIVE DefinedMembers(_)
DefinedMembers(members) ==
    IF members = <<>> THEN <<>>
    ELSE IF Head(members)[2] = undefined THEN DefinedMembers(Tail(members))
    ELSE <<Head(members)>> \o DefinedMembers(Tail(members))

JSONstringify(d) ==
    DefinedMembers(<< <<"scheme", d.scheme>>, <<"authority", d.authority>>,
                      <<"path", d.path>>, <<"query", d.query>>,
                      <<"fragment", d.fragment>> >>)

\* lines 276-285: the extra parameters appended to vscode-query
RECURSIVE AppendExtras(_, _, _)
AppendExtras(query, extras, index) ==
    IF extras = <<>> THEN query
    ELSE LET q0 == IF Truthy(query) THEN query ELSE <<>>
             prefix == IF index = 0 THEN <<>> ELSE <<"&">>
         IN  AppendExtras(q0 \o prefix \o Head(extras)[1] \o <<"=">> \o Head(extras)[2],
                          Tail(extras), index + 1)

\* lines 261-268: the six well-known values, each decoded when truthy
DecodedWellKnown(query) ==
    [i \in 1..6 |->
        LET value == getFirstQueryValue(query, wellKnownKeys[i])
        IN  IF Truthy(value) THEN decodeURIComponent(value) ELSE value]

\* the object literal of line 289
Descriptor(query) ==
    LET v == DecodedWellKnown(query)
        ignore == {wellKnownKeys[i] : i \in 1..6}
    IN  [scheme |-> IF Truthy(v[2]) THEN v[2] ELSE <<"c", "o", "d", "e", "-", "o", "s", "s">>,
         authority |-> v[3],
         path |-> v[4],
         query |-> AppendExtras(v[5], getFirstQueryValues(query, ignore), 0),
         fragment |-> v[6]]

\* (mutant) set that keeps an entry the key already has
MapSet_KeepFirst(m, k, v) ==
    [x \in DOMAIN m \cup {k} |-> IF x \in DOMAIN m THEN m[x] ELSE v]

\* (mutant) delete that empties the mapping
MapDelete_Clear(m, k) == [x \in {} |-> <<>>]

\* Map.prototype.set, Map.prototype.delete
MapSet(m, k, v) == [x \in DOMAIN m \cup {k} |-> IF x = k THEN v ELSE m[x]]
MapDelete(m, k) == [x \in DOMAIN m \ {k} |-> m[x]]
EmptyMap == [x \in {} |-> <<>>]

\* What a handler leaves behind: the request and the mapping
Out(r, m) == [r |-> r, map |-> m]

\* (mutant) a request id that has an entry is not registered again
handleCallback_RegisterOnce(r, m) ==
    LET v == DecodedWellKnown(r.url.query)
    IN  IF \E i \in 1..6 : v[i] = URIError THEN Out([r EXCEPT !.pc = "threw"], m)
        ELSE IF ~Truthy(v[1])
        THEN Out([r EXCEPT !.res = Response(400, "text/plain", "Bad request.")], m)
        ELSE Out(serveFile(r, CALLBACK_HTML),
                 IF v[1] \in DOMAIN m THEN m
                 ELSE MapSet(m, v[1], JSONstringify(Descriptor(r.url.query))))

\* handleCallback, lines 259-291
handleCallback(r, m) ==
    LET v == DecodedWellKnown(r.url.query)
    IN  IF \E i \in 1..6 : v[i] = URIError THEN Out([r EXCEPT !.pc = "threw"], m)
        ELSE IF ~Truthy(v[1])
        THEN Out([r EXCEPT !.res = Response(400, "text/plain", "Bad request.")], m)
        ELSE Out(serveFile(r, CALLBACK_HTML),
                 MapSet(m, v[1], JSONstringify(Descriptor(r.url.query))))

\* (mutant) the lookup without the delete of line 308
LookupAndDelete_NoDelete(m, requestId) ==
    IF requestId \in DOMAIN m
    THEN [found |-> m[requestId], map |-> m]
    ELSE [found |-> <<>>, map |-> m]

\* lines 306-309: the entry found and the mapping without it
LookupAndDelete(m, requestId) ==
    IF requestId \in DOMAIN m
    THEN [found |-> m[requestId], map |-> MapDelete(m, requestId)]
    ELSE [found |-> <<>>, map |-> m]

\* (mutant) an unknown request id answered as an error
handleFetchCallback_UnknownIs404(r, m) ==
    LET requestId == getFirstQueryValue(r.url.query, K_requestId)
    IN  IF ~Truthy(requestId)
        THEN Out([r EXCEPT !.res = Response(400, "text/plain", "Bad request.")], m)
        ELSE IF requestId \notin DOMAIN m
        THEN Out([r EXCEPT !.res = Response(404, "text/plain", "Not found.")], m)
        ELSE Out([r EXCEPT !.res = [Response(200, "text/json", "")
                                       EXCEPT !.data = m[requestId]]],
                 MapDelete(m, requestId))

\* handleFetchCallback, lines 299-313
handleFetchCallback(r, m) ==
    LET requestId == getFirstQueryValue(r.url.query, K_requestId)
    IN  IF ~Truthy(requestId)
        THEN Out([r EXCEPT !.res = Response(400, "text/plain", "Bad request.")], m)
        ELSE LET known == LookupAndDelete(m, requestId)
             IN  Out([r EXCEPT !.res = [Response(200, "text/json", "")
                                           EXCEPT !.data = known.found]],
                     known.map)

\* handleStatic, lines 196-202
handleStatic(r) ==
    LET decoded == decodeURIComponent(substr(r.url.pathname, Len(<<"/", "s", "t", "a", "t", "i", "c", "/">>)))
    IN  IF decoded = URIError THEN [r EXCEPT !.pc = "threw"]
        ELSE serveFile(r, join(APP_ROOT, normalize(decoded)))

\* handleStaticExtension, lines 209-217
handleStaticExtension(r) ==
    LET decoded == decodeURIComponent(substr(r.url.pathname, Len(<<"/", "s", "t", "a", "t", "i", "c", "-", "e", "x", "t", "e", "n", "s", "i", "o", "n", "/">>)))
    IN  IF decoded = URIError THEN [r EXCEPT !.pc = "threw"]
        ELSE serveFile(r, join(EXTENSIONS_ROOT, normalize(decoded)))

\* handleRoot up to its first await, lines 223-234
handleRoot(r) == [r EXCEPT !.pc = "catalog"]

\* An async function turns an exception into a rejected promise
Async(out) ==
    IF out.r.pc = "threw" THEN Out([out.r EXCEPT !.pc = "rejected"], out.map) ELSE out

\* (mutant) the static routes matched without their closing slash
Route_PrefixWithoutSlash(pathname) ==
    IF pathname = <<"/", "f", "a", "v", "i", "c", "o", "n", ".", "i", "c", "o">> THEN "favicon"
    ELSE IF pathname = <<"/", "m", "a", "n", "i", "f", "e", "s", "t", ".", "j", "s", "o", "n">> THEN "manifest"
    ELSE IF IsPrefix(<<"/", "s", "t", "a", "t", "i", "c">>, pathname) THEN "static"
    ELSE IF IsPrefix(<<"/", "s", "t", "a", "t", "i", "c", "-", "e", "x", "t", "e", "n", "s", "i", "o", "n">>, pathname) THEN "static-extension"
    ELSE IF pathname = <<"/">> THEN "root"
    ELSE IF pathname = <<"/", "c", "a", "l", "l", "b", "a", "c", "k">> THEN "callback"
    ELSE IF pathname = <<"/", "f", "e", "t", "c", "h", "-", "c", "a", "l", "l", "b", "a", "c", "k">> THEN "fetch-callback"
    ELSE "none"

\* The route the handler of lines 137-171 takes for a pathname
Route(pathname) ==
    IF pathname = <<"/", "f", "a", "v", "i", "c", "o", "n", ".", "i", "c", "o">> THEN "favicon"
    ELSE IF pathname = <<"/", "m", "a", "n", "i", "f", "e", "s", "t", ".", "j", "s", "o", "n">> THEN "manifest"
    ELSE IF IsPrefix(<<"/", "s", "t", "a", "t", "i", "c", "/">>, pathname) THEN "static"
    ELSE IF IsPrefix(<<"/", "s", "t", "a", "t", "i", "c", "-", "e", "x", "t", "e", "n", "s", "i", "o", "n", "/">>, pathname) THEN "static-extension"
    ELSE IF pathname = <<"/">> THEN "root"
    ELSE IF pathname = <<"/", "c", "a", "l", "l", "b", "a", "c", "k">> THEN "callback"
    ELSE IF pathname = <<"/", "f", "e", "t", "c", "h", "-", "c", "a", "l", "l", "b", "a", "c", "k">> THEN "fetch-callback"
    ELSE "none"

\* lines 137-171: the body of the try block
Dispatch(u, m) ==
    LET route == Route(u.pathname)
        r == NewRequest(u, route)
    IN  CASE route = "favicon" -> Out(serveFile(r, FAVICON), m)
          [] route = "manifest" ->
                Out([r EXCEPT !.res = Response(200, "application/json", "manifest")], m)
          [] route = "static" -> Out(handleStatic(r), m)
          [] route = "static-extension" -> Out(handleStaticExtension(r), m)
          [] route = "root" -> Async(Out(handleRoot(r), m))
          [] route = "callback" -> Async(handleCallback(r, m))
          [] route = "fetch-callback" -> Async(handleFetchCallback(r, m))
          [] OTHER -> Out(serveError(r, 404, "Not found."), m)

\* lines 132-177: the request handler with its catch block, which sees the
\* exceptions thrown before the handler returns and no rejected promise
Handle(u, m) ==
    LET out == Dispatch(u, m)
    IN  IF out.r.pc = "threw"
        THEN Out(serveError(out.r, 500, "Internal Server Error."), out.map)
        ELSE out

----------------------------------------------------------------------------
\* Actions of the server

\* A request arrives: the handler of line 132 runs until it returns, which
\* for an async handler is its first await.  A rejected promise has no
\* handler: the build either logs it or ends the process.
Request(u) ==
    /\ alive
    /\ LET out == Handle(u, mapCallbackUriToRequestId)
       IN  /\ reqs' = Append(reqs, out.r)
           /\ mapCallbackUriToRequestId' = out.map
           /\ alive' = ~(out.r.pc = "rejected" /\ rejectionMode = "throw")
    /\ UNCHANGED <<fs, rejectionMode, discoveryVars, probe>>

\* fs.stat answers request i and serveFile runs to its end, lines 410-431
StatDone(i) ==
    /\ alive
    /\ reqs[i].pc = "stat"
    /\ reqs' = [reqs EXCEPT ![i] = AfterStat(reqs[i], stat(fs, reqs[i].filePath))]
    /\ UNCHANGED <<mapCallbackUriToRequestId, fs, alive, rejectionMode, discoveryVars, probe>>

\* The read stream of line 426 opens its file and pipes it, or emits 'error',
\* which has no listener: an uncaught exception, and the process ends
StreamOpen(i) ==
    /\ alive
    /\ reqs[i].pc = "open"
    /\ IF Readable(fs, reqs[i].filePath)
       THEN /\ reqs' = [reqs EXCEPT ![i].stream = "ended", ![i].pc = "done"]
            /\ alive' = alive
       ELSE /\ reqs' = [reqs EXCEPT ![i].stream = "error", ![i].pc = "done"]
            /\ alive' = FALSE
    /\ UNCHANGED <<mapCallbackUriToRequestId, fs, rejectionMode, discoveryVars, probe>>

\* handleRoot after builtinExtensionsPromise is settled, lines 234-243: a
\* rejection rejects the handler, a catalog lets it read the template
RootCatalog(i) ==
    /\ alive
    /\ reqs[i].pc = "catalog"
    /\ builtinExtensionsPromise # "pending"
    /\ IF builtinExtensionsPromise = "fulfilled"
       THEN /\ reqs' = [reqs EXCEPT ![i].pc = "template", ![i].io = {"readFile"}]
            /\ alive' = alive
       ELSE /\ reqs' = [reqs EXCEPT ![i].pc = "rejected"]
            /\ alive' = (rejectionMode # "throw")
    /\ UNCHANGED <<mapCallbackUriToRequestId, fs, rejectionMode, discoveryVars, probe>>

\* lines 224-232 and 236-241: the folder the document opens
FolderUri(query) ==
    LET gh == getFirstQueryValue(query, <<"g", "h">>)
    IN  IF ~Truthy(gh) THEN <<"memfs", <<"/", "s", "a", "m", "p", "l", "e", "-", "f", "o", "l", "d", "e", "r">>>>
        ELSE IF gh[1] = "/" THEN <<"github", gh>>
        ELSE <<"github", <<"/">> \o gh>>

\* handleRoot after fs.readFile(WEB_MAIN) has answered, lines 243-250
RootTemplate(i) ==
    /\ alive
    /\ reqs[i].pc = "template"
    /\ IF Readable(fs, WEB_MAIN)
       THEN /\ reqs' = [reqs EXCEPT
                  ![i].res = [Response(200, "text/html", "")
                                 EXCEPT !.data = <<FolderUri(reqs[i].url.query),
                                                   builtinExtensions>>],
                  ![i].pc = "done"]
            /\ alive' = alive
       ELSE /\ reqs' = [reqs EXCEPT ![i].pc = "rejected"]
            /\ alive' = (rejectionMode # "throw")
    /\ UNCHANGED <<mapCallbackUriToRequestId, fs, rejectionMode, discoveryVars, probe>>

\* The environment rewrites file p: its modification time moves on and it
\* keeps its size or grows by one
Touch(p) ==
    /\ fs[p].kind = "file"
    /\ fs[p].mtime < MaxMtime
    /\ \E grow \in {0, 1} :
          fs' = [fs EXCEPT ![p].size = @ + grow, ![p].mtime = @ + 1]
    /\ UNCHANGED <<reqs, mapCallbackUriToRequestId, alive, rejectionMode, discoveryVars, probe>>

\* The environment removes file p
Unlink(p) ==
    /\ fs[p].kind = "file"
    /\ fs' = [fs EXCEPT ![p] = [kind |-> "none", ino |-> 0, size |-> 0, mtime |-> 0]]
    /\ UNCHANGED <<reqs, mapCallbackUriToRequestId, alive, rejectionMode, discoveryVars, probe>>

----------------------------------------------------------------------------
\* Extension discovery, lines 65-128

Folders == 1..MaxFolders

\* An entry of the extensions directory.  isFile: Dirent.isFile(); listable:
\* fs.readdir of it succeeds; pkg: its package.json is "missing", "unreadable"
\* (readFile fails), "malformed" (JSON.parse throws), "null" (parses to null)
\* or an "object"; main: the object has a truthy main; browser: its browser
\* member, undefined when it has none; built: the file browser resolves to
\* exists; nls: package.nls.json exists
Entry(isFile, listable, pkg, main, browser, built, nls) ==
    [isFile |-> isFile, listable |-> listable, pkg |-> pkg, main |-> main,
     browser |-> browser, built |-> built, nls |-> nls]

EntryKinds ==
    { Entry(TRUE, FALSE, "missing", FALSE, undefined, FALSE, FALSE),
      Entry(FALSE, FALSE, "missing", FALSE, undefined, FALSE, FALSE),
      Entry(FALSE, FALSE, "object", FALSE, undefined, FALSE, FALSE),
      Entry(FALSE, TRUE, "missing", FALSE, undefined, FALSE, FALSE),
      Entry(FALSE, TRUE, "unreadable", FALSE, undefined, FALSE, FALSE),
      Entry(FALSE, TRUE, "malformed", FALSE, undefined, FALSE, FALSE),
      Entry(FALSE, TRUE, "null", FALSE, undefined, FALSE, FALSE),
      Entry(FALSE, TRUE, "object", TRUE, undefined, FALSE, FALSE),
      Entry(FALSE, TRUE, "object", FALSE, undefined, FALSE, TRUE),
      Entry(FALSE, TRUE, "object", TRUE, <<"b", ".", "j", "s">>, TRUE, FALSE),
      Entry(FALSE, TRUE, "object", TRUE, <<"b", ".", "j", "s">>, FALSE, TRUE),
      Entry(FALSE, TRUE, "object", FALSE, <<"b">>, FALSE, FALSE) }

\* lines 98-101: the file the browser entry resolves to
MainFile(browser) == IF extname(browser) # <<".", "j", "s">> THEN browser \o <<".", "j", "s">> ELSE browser

\* (mutant) an extension counted as supported only with a browser entry
Supported_NeedsBrowser(e) == Truthy(e.browser)

\* line 91: not (main && !browser)
Supported(e) == ~(e.main /\ ~Truthy(e.browser))

\* lines 110-116: the catalog entry of folder f, main rewritten by line 96
CatalogEntry(f, e) ==
    [extensionPath |-> f,
     main |-> IF Truthy(e.browser) THEN e.browser ELSE undefined,
     extensionKind |-> "web",
     packageNLSPath |-> e.nls]

Settled(pc) == pc \in {"filtered", "done"}

\* lines 68-70: fs.readdir of the extensions root answers; a failure rejects
\* initialize(), a success starts the callback of every entry that is no file
ReaddirRoot ==
    /\ alive
    /\ builtinExtensionsPromise = "pending"
    /\ \A f \in Folders : tasks[f] = "idle"
    /\ IF extDisk.rootOk
       THEN /\ tasks' = [f \in Folders |->
                            IF extDisk.entries[f].isFile THEN "filtered" ELSE "readdir"]
            /\ UNCHANGED <<builtinExtensionsPromise, alive>>
       ELSE /\ builtinExtensionsPromise' = "rejected"
            /\ alive' = (rejectionMode # "throw")
            /\ UNCHANGED tasks
    /\ UNCHANGED <<reqs, mapCallbackUriToRequestId, fs, rejectionMode, extDisk,
                   builtinExtensions, unbuiltExensions, probe>>

\* lines 74-88: fs.readdir of folder f answers
TaskReaddir(f) ==
    /\ alive
    /\ tasks[f] = "readdir"
    /\ tasks' = [tasks EXCEPT ![f] = IF extDisk.entries[f].listable THEN "exists" ELSE "done"]
    /\ UNCHANGED <<serverVars, extDisk, builtinExtensions, unbuiltExensions,
                   builtinExtensionsPromise, probe>>

\* lines 88-90: exists(package.json) answers
TaskExists(f) ==
    /\ alive
    /\ tasks[f] = "exists"
    /\ tasks' = [tasks EXCEPT ![f] = IF extDisk.entries[f].pkg # "missing"
                                      THEN "readFile" ELSE "done"]
    /\ UNCHANGED <<serverVars, extDisk, builtinExtensions, unbuiltExensions,
                   builtinExtensionsPromise, probe>>

\* lines 90-102 and 117-119: readFile(package.json) answers; a failure, a
\* JSON.parse error and the TypeError of null.main are caught
TaskReadFile(f) ==
    /\ alive
    /\ tasks[f] = "readFile"
    /\ LET e == extDisk.entries[f]
       IN  tasks' = [tasks EXCEPT ![f] =
                        IF e.pkg # "object" THEN "done"
                        ELSE IF ~Supported(e) THEN "done"
                        ELSE IF Truthy(e.browser) THEN "existsMain"
                        ELSE "existsNls"]
    /\ UNCHANGED <<serverVars, extDisk, builtinExtensions, unbuiltExensions,
                   builtinExtensionsPromise, probe>>

\* lines 102-109: exists(mainFilePath) answers
TaskExistsMain(f) ==
    /\ alive
    /\ tasks[f] = "existsMain"
    /\ tasks' = [tasks EXCEPT ![f] = "existsNls"]
    /\ unbuiltExensions' =
          IF extDisk.entries[f].built THEN unbuiltExensions
          ELSE Append(unbuiltExensions, <<f, MainFile(extDisk.entries[f].browser)>>)
    /\ UNCHANGED <<serverVars, extDisk, builtinExtensions, builtinExtensionsPromise, probe>>

\* lines 109-116: exists(package.nls.json) answers and the entry is pushed
TaskExistsNls(f) ==
    /\ alive
    /\ tasks[f] = "existsNls"
    /\ tasks' = [tasks EXCEPT ![f] = "done"]
    /\ builtinExtensions' = Append(builtinExtensions, CatalogEntry(f, extDisk.entries[f]))
    /\ UNCHANGED <<serverVars, extDisk, unbuiltExensions, builtinExtensionsPromise, probe>>

\* lines 121-125: Promise.all is fulfilled and initialize() returns the catalog
Join ==
    /\ alive
    /\ builtinExtensionsPromise = "pending"
    /\ \A f \in Folders : Settled(tasks[f])
    /\ builtinExtensionsPromise' = "fulfilled"
    /\ UNCHANGED <<serverVars, extDisk, tasks, builtinExtensions, unbuiltExensions, probe>>

DiscoveryStep ==
    \/ ReaddirRoot
    \/ \E f \in Folders : TaskReaddir(f)
    \/ \E f \in Folders : TaskExists(f)
    \/ \E f \in Folders : TaskReadFile(f)
    \/ \E f \in Folders : TaskExistsMain(f)
    \/ \E f \in Folders : TaskExistsNls(f)
    \/ Join

\* An extensions directory that holds one web extension and, beside it, files
HealthyDisk ==
    [rootOk |-> TRUE,
     entries |-> [f \in Folders |->
                    IF f = 1 THEN Entry(FALSE, TRUE, "object", TRUE, <<"b", ".", "j", "s">>, TRUE, TRUE)
                    ELSE Entry(TRUE, FALSE, "missing", FALSE, undefined, FALSE, FALSE)]]

\* The same with an extensions root that cannot be read
BrokenDisk == [HealthyDisk EXCEPT !.rootOk = FALSE]

InitServer ==
    /\ reqs = <<>>
    /\ mapCallbackUriToRequestId = EmptyMap
    /\ fs = InitialFs
    /\ alive = TRUE
    /\ rejectionMode \in {"warn", "throw"}

InitDiscovery ==
    /\ tasks = [f \in Folders |-> "idle"]
    /\ builtinExtensions = <<>>
    /\ unbuiltExensions = <<>>
    /\ builtinExtensionsPromise = "pending"

\* Discovery over every extensions directory of the bounds
InitAnyDisk ==
    /\ InitServer
    /\ InitDiscovery
    /\ extDisk \in [rootOk : BOOLEAN, entries : [Folders -> EntryKinds]]
    /\ probe = <<>>

SpecDiscovery == InitAnyDisk /\ [][DiscoveryStep]_vars

\* The server beside a discovery that stays pending
Init ==
    /\ InitServer
    /\ InitDiscovery
    /\ extDisk = HealthyDisk
    /\ probe = <<>>

----------------------------------------------------------------------------
\* The callback relay: /callback and /fetch-callback requests

Url(pathname, query, inm) == [pathname |-> pathname, query |-> query, inm |-> inm]

CallbackQueries ==
    { << <<K_requestId, <<"a">>>>, <<K_scheme, <<"s">>>> >>,
      << <<K_requestId, <<"a">>>>, <<K_query, <<"q">>>>, <<<<"x">>, <<"1">>>>, <<<<"0">>, <<"2">>>>, <<<<"x">>, <<"3">>>> >>,
      << <<K_requestId, <<"%", "6", "1">>>> >>,
      << <<K_scheme, <<"%">>>> >>,
      << <<K_requestId, <<>> >>, <<K_scheme, <<"s">>>> >> }

FetchQueries ==
    { << <<K_requestId, <<"a">>>> >>,
      << <<K_requestId, <<"b">>>> >>,
      << <<K_requestId, <<"%", "6", "1">>>> >>,
      <<>> }

CALLBACK_ETAG == etag(stat(InitialFs, CALLBACK_HTML))

RelayUrls ==
    {Url(<<"/", "c", "a", "l", "l", "b", "a", "c", "k">>, q, undefined) : q \in CallbackQueries}
    \cup {Url(<<"/", "c", "a", "l", "l", "b", "a", "c", "k">>, << <<K_requestId, <<"b">>>> >>, CALLBACK_ETAG)}
    \cup {Url(<<"/", "f", "e", "t", "c", "h", "-", "c", "a", "l", "l", "b", "a", "c", "k">>, q, undefined) : q \in FetchQueries}

NextRelay ==
    \/ Len(reqs) < MaxReq /\ \E u \in RelayUrls : Request(u)
    \/ \E i \in DOMAIN reqs : StatDone(i)
    \/ \E i \in DOMAIN reqs : StreamOpen(i)

SpecRelay == Init /\ [][NextRelay]_vars

----------------------------------------------------------------------------
\* The file server: /static/, /static-extension/ and /favicon.ico requests
\* while the environment rewrites and removes the served file

StaticPathnames ==
    { <<"/", "s", "t", "a", "t", "i", "c", "/", "n", "o", "p", "e", ".", "j", "s">>,
      <<"/", "s", "t", "a", "t", "i", "c", "/", "s", "r", "c">>,
      <<"/", "s", "t", "a", "t", "i", "c", "/", "%", "2", "e", "%", "2", "e", "%", "2", "F", "w", "2", "%", "2", "F", "s", ".", "j", "s">>,
      <<"/", "s", "t", "a", "t", "i", "c", "-", "e", "x", "t", "e", "n", "s", "i", "o", "n", "/", "x", "/", "m", ".", "j", "s">>,
      <<"/", "s", "t", "a", "t", "i", "c", "-", "e", "x", "t", "e", "n", "s", "i", "o", "n", "/", ".", ".", "/", "a", ".", "j", "s">>,
      <<"/", "s", "t", "a", "t", "i", "c", "-", "e", "x", "t", "e", "n", "s", "i", "o", "n", "/", ".", ".", "/", ".", ".", "/", "w", "2", "/", "s", ".", "j", "s">>,
      <<"/", "f", "a", "v", "i", "c", "o", "n", ".", "i", "c", "o">> }

\* If-None-Match on the requests for the file the environment rewrites:
\* absent, a token no file has, or a token a response of this run carried
SeenEtags == {reqs[i].res.etag : i \in DOMAIN reqs} \ {undefined}

FileUrls ==
    {Url(p, <<>>, undefined) : p \in StaticPathnames}
    \cup {Url(<<"/", "s", "t", "a", "t", "i", "c", "/", "a", ".", "j", "s">>, <<>>, inm) : inm \in {undefined, <<"W", "/", "\"", "0", "-", "0", "-", "0", "\"">>} \cup SeenEtags}

\* no promise is rejected on these routes
InitFiles == Init /\ rejectionMode = "throw"

NextFiles ==
    \/ Len(reqs) < MaxFileReq /\ \E u \in FileUrls : Request(u)
    \/ \E i \in DOMAIN reqs : StatDone(i)
    \/ \E i \in DOMAIN reqs : StreamOpen(i)
    \/ Touch(STATIC_JS)
    \/ Unlink(STATIC_JS)

SpecFiles == InitFiles /\ [][NextFiles]_vars

----------------------------------------------------------------------------
\* The file server asked for extension files only: a file of an extension, a
\* file and a missing file the path reaches above the extensions root, and a
\* file outside the application root

ExtensionUrls ==
    {Url(p, <<>>, undefined) : p \in { <<"/", "s", "t", "a", "t", "i", "c", "-", "e", "x", "t", "e", "n", "s", "i", "o", "n", "/", "x", "/", "m", ".", "j", "s">>,
                                       <<"/", "s", "t", "a", "t", "i", "c", "-", "e", "x", "t", "e", "n", "s", "i", "o", "n", "/", ".", ".", "/", "n", "o", "p", "e", ".", "j", "s">>,
                                       <<"/", "s", "t", "a", "t", "i", "c", "-", "e", "x", "t", "e", "n", "s", "i", "o", "n", "/", ".", ".", "/", ".", ".", "/", "w", "2", "/", "s", ".", "j", "s">> }}
    \cup {Url(<<"/", "s", "t", "a", "t", "i", "c", "-", "e", "x", "t", "e", "n", "s", "i", "o", "n", "/", ".", ".", "/", "a", ".", "j", "s">>, <<>>, inm) : inm \in {undefined} \cup SeenEtags}

NextExtension ==
    \/ Len(reqs) < MaxFileReq /\ \E u \in ExtensionUrls : Request(u)
    \/ \E i \in DOMAIN reqs : StatDone(i)
    \/ \E i \in DOMAIN reqs : StreamOpen(i)
    \/ Touch(STATIC_JS)
    \/ Unlink(STATIC_JS)

SpecExtension == InitFiles /\ [][NextExtension]_vars

----------------------------------------------------------------------------
\* The validation token on its own: two (inode, size, mtime) triples

Triples == [ok : {TRUE}, ino : {1, MaxNum}, size : 0..MaxNum, mtime : (-1)..MaxNum]

InitEtag ==
    /\ InitServer /\ rejectionMode = "throw"
    /\ InitDiscovery
    /\ extDisk = HealthyDisk
    /\ probe \in [a : Triples, b : Triples, ta : {<<>>}, tb : {<<>>}]

ApplyEtag ==
    /\ probe.ta = <<>>
    /\ probe' = [probe EXCEPT !.ta = etag(probe.a), !.tb = etag(probe.b)]
    /\ UNCHANGED <<serverVars, discoveryVars>>

SpecEtag == InitEtag /\ [][ApplyEtag]_vars

----------------------------------------------------------------------------
\* The whole server: every route, discovery running beside the requests

AllUrls ==
    { Url(<<"/">>, <<>>, undefined),
      Url(<<"/", "m", "a", "n", "i", "f", "e", "s", "t", ".", "j", "s", "o", "n">>, <<>>, undefined),
      Url(<<"/", "f", "a", "v", "i", "c", "o", "n", ".", "i", "c", "o">>, <<>>, undefined),
      Url(<<"/", "s", "t", "a", "t", "i", "c", "/", "a", ".", "j", "s">>, <<>>, undefined),
      Url(<<"/", "s", "t", "a", "t", "i", "c", "/", "%">>, <<>>, undefined),
      Url(<<"/", "s", "t", "a", "t", "i", "c">>, <<>>, undefined),
      Url(<<"/", "s", "t", "a", "t", "i", "c", "-", "e", "x", "t", "e", "n", "s", "i", "o", "n", "/", ".", ".", "/", ".", ".", "/", "w", "2", "/", "s", ".", "j", "s">>, <<>>, undefined),
      Url(<<"/", "c", "a", "l", "l", "b", "a", "c", "k">>, << <<K_requestId, <<"a">>>> >>, undefined),
      Url(<<"/", "c", "a", "l", "l", "b", "a", "c", "k">>, << <<K_requestId, <<"%">>>> >>, undefined),
      Url(<<"/", "f", "e", "t", "c", "h", "-", "c", "a", "l", "l", "b", "a", "c", "k">>, << <<K_requestId, <<"a">>>> >>, undefined),
      Url(<<"/", "n", "o", "p", "e">>, <<>>, undefined) }

InitAll ==
    /\ InitServer
    /\ InitDiscovery
    /\ extDisk \in {HealthyDisk, BrokenDisk}
    /\ probe = <<>>

Next ==
    \/ Len(reqs) < MaxFileReq /\ \E u \in AllUrls : Request(u)
    \/ \E i \in DOMAIN reqs : StatDone(i)
    \/ \E i \in DOMAIN reqs : StreamOpen(i)
    \/ \E i \in DOMAIN reqs : RootCatalog(i)
    \/ \E i \in DOMAIN reqs : RootTemplate(i)
    \/ Unlink(WEB_MAIN)
    \/ DiscoveryStep

Spec == InitAll /\ [][Next]_vars

----------------------------------------------------------------------------
\* The document root beside discovery: / requests and requests of routes that
\* do not wait for the catalog, while discovery runs and the environment may
\* remove the template

RootUrls ==
    { Url(<<"/">>, <<>>, undefined),
      Url(<<"/">>, << <<<<"g", "h">>, <<"o", "/", "r">>>> >>, undefined),
      Url(<<"/", "m", "a", "n", "i", "f", "e", "s", "t", ".", "j", "s", "o", "n">>, <<>>, undefined),
      Url(<<"/", "f", "e", "t", "c", "h", "-", "c", "a", "l", "l", "b", "a", "c", "k">>, << <<K_requestId, <<"a">>>> >>, undefined),
      Url(<<"/", "n", "o", "p", "e">>, <<>>, undefined) }

\* The event loop runs every continuation that is ready: the callbacks of
\* the catalog promise, of fs.readFile and of the discovery's file system
\* calls.  Requests and the environment's changes to the disk are under no
\* such obligation.
Continuation ==
    \/ \E i \in DOMAIN reqs : RootCatalog(i)
    \/ \E i \in DOMAIN reqs : RootTemplate(i)
    \/ DiscoveryStep

NextRoot ==
    \/ Len(reqs) < MaxFileReq /\ \E u \in RootUrls : Request(u)
    \/ \E i \in DOMAIN reqs : RootCatalog(i)
    \/ \E i \in DOMAIN reqs : RootTemplate(i)
    \/ Unlink(WEB_MAIN)
    \/ DiscoveryStep

SpecRoot == InitAll /\ [][NextRoot]_vars /\ WF_vars(Continuation)
----------------------------------------------------------------------------
\* The exchanges of a run, read off reqs

IsCallback(i) == reqs[i].route = "callback"
IsFetch(i) == reqs[i].route = "fetch-callback"

\* the vscode-requestId value of request i as url.parse gives it
RequestIdOf(i) == getFirstQueryValue(reqs[i].url.query, K_requestId)

\* /callback request i reached lines 289-290: it registered request id R and
\* handed the confirmation document to serveFile
Registers(i, R) ==
    /\ IsCallback(i)
    /\ Truthy(R)
    /\ reqs[i].filePath = CALLBACK_HTML
    /\ decodeURIComponent(RequestIdOf(i)) = R

\* /fetch-callback request j asked for request id R
Fetches(j, R) == IsFetch(j) /\ RequestIdOf(j) = R /\ Truthy(R)

RequestIds ==
    {RequestIdOf(i) : i \in DOMAIN reqs}
    \cup {decodeURIComponent(RequestIdOf(i)) : i \in {k \in DOMAIN reqs : Truthy(RequestIdOf(k))}}

\* no /callback registers R strictly between requests i and j
NoRegistrationBetween(i, j, R) == \A k \in DOMAIN reqs : i < k /\ k < j => ~Registers(k, R)

\* no /fetch-callback asks for R strictly between requests i and j
NoFetchBetween(i, j, R) == \A k \in DOMAIN reqs : i < k /\ k < j => ~Fetches(k, R)

\* the descriptor /callback request i serializes
SerializedDescriptorOf(i) == JSONstringify(Descriptor(reqs[i].url.query))

\* the request a step has just accepted, when it accepted one
Accepted == Len(reqs') = Len(reqs) + 1

----------------------------------------------------------------------------
\* C1: after a /callback registers request id R with descriptor D, the next
\* /fetch-callback for R (no /callback for R in between) is answered 200 with
\* exactly the serialized D, and a further /fetch-callback for R with no
\* registration in between is answered with an empty body.
C1_RegisterThenRetrieve ==
    \A R \in RequestIds : \A i, j \in DOMAIN reqs :
        /\ (/\ i < j /\ Registers(i, R) /\ Fetches(j, R)
            /\ NoRegistrationBetween(i, j, R) /\ NoFetchBetween(i, j, R))
           => /\ reqs[j].res.status = 200
              /\ reqs[j].res.text = ""
              /\ reqs[j].res.data = SerializedDescriptorOf(i)
        /\ (/\ i < j /\ Fetches(i, R) /\ Fetches(j, R)
            /\ NoRegistrationBetween(i, j, R))
           => EmptyBody(reqs[j].res)

\* a registration, its retrieval and a second, empty retrieval
C1_Witness ==
    \E i, j, k \in DOMAIN reqs :
        /\ i < j /\ j < k
        /\ Registers(i, <<"a">>) /\ Fetches(j, <<"a">>) /\ Fetches(k, <<"a">>)
        /\ reqs[j].res.data = SerializedDescriptorOf(i)
        /\ reqs[j].res.data # <<>>
        /\ reqs[k].res.status = 200 /\ EmptyBody(reqs[k].res)

\* C2: of the /fetch-callback requests for one request id that follow a single
\* registration at most one receives the descriptor, and the entry is out of
\* the mapping in the very state in which a response carries it (lookup and
\* delete are one step: no state has the descriptor delivered and still stored).
C2_NoDoubleDelivery ==
    \A R \in RequestIds : \A i \in DOMAIN reqs :
        Registers(i, R) /\ NoRegistrationBetween(i, Len(reqs) + 1, R) =>
            LET delivered == {j \in DOMAIN reqs :
                                 i < j /\ Fetches(j, R) /\ reqs[j].res.data # <<>>}
            IN  /\ Cardinality(delivered) <= 1
                /\ delivered # {} => R \notin DOMAIN mapCallbackUriToRequestId

\* two retrievals arrive while the registering request still awaits fs.stat:
\* the first one is served the descriptor, the second one nothing
C2_Witness ==
    \E i, j, k \in DOMAIN reqs :
        /\ i < j /\ j < k
        /\ Registers(i, <<"a">>) /\ reqs[i].pc = "stat"
        /\ Fetches(j, <<"a">>) /\ Fetches(k, <<"a">>)
        /\ reqs[j].res.data # <<>> /\ reqs[k].res.data = <<>>

\* C6 (as claimed): a /callback or /fetch-callback request whose
\* vscode-requestId is missing or empty is answered 400 whatever its other
\* parameters are, and leaves the mapping unchanged.
C6_MissingRequestIdIs400 ==
    [][(/\ Accepted
        /\ reqs'[Len(reqs')].route \in {"callback", "fetch-callback"}
        /\ ~Truthy(getFirstQueryValue(reqs'[Len(reqs')].url.query, K_requestId)))
       => /\ reqs'[Len(reqs')].res.status = 400
          /\ mapCallbackUriToRequestId' = mapCallbackUriToRequestId]_vars

\* C7: a /fetch-callback for a request id with no entry in the mapping is
\* answered 200 with an empty body and leaves the mapping unchanged.
C7_UnknownIdIsEmpty200 ==
    [][(/\ Accepted
        /\ reqs'[Len(reqs')].route = "fetch-callback"
        /\ Truthy(getFirstQueryValue(reqs'[Len(reqs')].url.query, K_requestId))
        /\ getFirstQueryValue(reqs'[Len(reqs')].url.query, K_requestId)
              \notin DOMAIN mapCallbackUriToRequestId)
       => /\ reqs'[Len(reqs')].res.status = 200
          /\ EmptyBody(reqs'[Len(reqs')].res)
          /\ mapCallbackUriToRequestId' = mapCallbackUriToRequestId]_vars

\* request id b was never registered: its retrieval is answered 200 and
\* empty while the entry of a stays in the mapping
C7_Witness ==
    \E i, j \in DOMAIN reqs :
        /\ i < j /\ Registers(i, <<"a">>) /\ Fetches(j, <<"b">>)
        /\ \A k \in DOMAIN reqs : ~Registers(k, <<"b">>)
        /\ reqs[j].res.status = 200 /\ EmptyBody(reqs[j].res)
        /\ <<"a">> \in DOMAIN mapCallbackUriToRequestId

----------------------------------------------------------------------------
\* request i was handed to serveFile (which records the normalized path)
Served(i) == reqs[i].filePath # <<>>

\* fs.stat has answered request i
StatAnswered(i) == Served(i) /\ reqs[i].pc \in {"open", "done"} /\ "stat" \in reqs[i].io

\* C3: when the normalized path handed to serveFile does not begin with the
\* application root followed by the separator, the answer is 400 and the
\* request performs no stat, open or read.
C3_OutsideRootIs400 ==
    \A i \in DOMAIN reqs :
        Served(i) /\ ~IsPrefix(APP_ROOT \o <<sep>>, reqs[i].filePath) =>
            /\ reqs[i].res.status = 400
            /\ reqs[i].pc = "done"
            /\ reqs[i].io = {}
            /\ reqs[i].stream = "none"

\* /static/%2e%2e%2Fw2%2Fs.js: the decoded path leaves the root for a sibling
\* directory whose name begins with the root's name
C3_Witness ==
    \E i \in DOMAIN reqs :
        /\ reqs[i].route = "static"
        /\ reqs[i].url.pathname = <<"/", "s", "t", "a", "t", "i", "c", "/", "%", "2", "e", "%", "2", "e", "%", "2", "F", "w", "2", "%", "2", "F", "s", ".", "j", "s">>
        /\ reqs[i].filePath = SIBLING_JS
        /\ reqs[i].res.status = 400
        /\ reqs[i].io = {}

\* a request failed: an error status, or a stream error after the 200 headers
Failed(i) == reqs[i].res.status \in {400, 404, 500} \/ reqs[i].stream = "error"

\* C5 (as claimed): after any request has failed, whatever the failure, the
\* server still accepts and answers requests.
C5_AvailableAfterFailure == (\E i \in DOMAIN reqs : Failed(i)) => alive

\* C8: for a file whose (inode, size, mtime) is the same at two requests, the
\* second, sent with If-None-Match equal to the Etag of the first, is answered
\* 304 with no body and no stream; a request whose If-None-Match is absent or
\* differs from the token is answered 200 with that Etag and a stream.
C8_ConditionalRequest ==
    /\ \A i, j \in DOMAIN reqs :
          (/\ i < j /\ StatAnswered(i) /\ StatAnswered(j)
           /\ reqs[i].filePath = reqs[j].filePath
           /\ reqs[i].res.status = 200
           /\ reqs[j].stat.ok /\ reqs[j].stat = reqs[i].stat
           /\ reqs[j].url.inm = reqs[i].res.etag)
          => /\ reqs[j].res.status = 304
             /\ EmptyBody(reqs[j].res)
             /\ reqs[j].stream = "none" /\ "open" \notin reqs[j].io
    /\ \A j \in DOMAIN reqs :
          (/\ StatAnswered(j) /\ reqs[j].stat.ok
           /\ reqs[j].url.inm # etag(reqs[j].stat))
          => /\ reqs[j].res.status = 200
             /\ reqs[j].res.etag = etag(reqs[j].stat)
             /\ "open" \in reqs[j].io

\* the file is served, then asked for again with the Etag just received and
\* answered 304
C8_Witness ==
    \E i, j \in DOMAIN reqs :
        /\ i < j
        /\ reqs[i].filePath = STATIC_JS /\ reqs[j].filePath = STATIC_JS
        /\ reqs[i].res.status = 200 /\ reqs[i].stream = "ended"
        /\ reqs[j].url.inm = reqs[i].res.etag
        /\ reqs[j].res.status = 304

----------------------------------------------------------------------------
\* C4 (as claimed): an exception raised while a request is handled, in any
\* route, the async handlers included, is answered 500 with the generic
\* message and does not end the process.
C4_ExceptionsAnswered500 ==
    \A i \in DOMAIN reqs :
        reqs[i].pc = "rejected" =>
            /\ reqs[i].res = Response(500, "text/plain", "Internal Server Error.")
            /\ alive

----------------------------------------------------------------------------
\* C9: the token is an injective function of (inode, size, mtime): equal
\* triples give equal tokens, and triples that differ, in size or in
\* modification time in particular, give different tokens.
C9_TokenInjective ==
    probe # <<>> /\ probe.ta # <<>> =>
        /\ probe.a = probe.b => probe.ta = probe.tb
        /\ probe.a # probe.b => probe.ta # probe.tb
        /\ (probe.a.size # probe.b.size \/ probe.a.mtime # probe.b.mtime)
              => probe.ta # probe.tb

\* two triples of one inode whose digits agree when read without separators
C9_Witness ==
    /\ probe # <<>> /\ probe.ta # <<>>
    /\ probe.a.ino = 1 /\ probe.a.size = 1 /\ probe.a.mtime = 11
    /\ probe.b.ino = 1 /\ probe.b.size = 11 /\ probe.b.mtime = 1
    /\ probe.ta = <<"W", "/", "\"", "1", "-", "1", "-", "1", "1", "\"">>
    /\ probe.tb = <<"W", "/", "\"", "1", "-", "1", "1", "-", "1", "\"">>

----------------------------------------------------------------------------
\* the folders of the catalog and of the unbuilt warning
Catalogued == {builtinExtensions[k].extensionPath : k \in DOMAIN builtinExtensions}
Unbuilt == {unbuiltExensions[k][1] : k \in DOMAIN unbuiltExensions}

\* the descriptor exists, parses, and declares no main or a browser entry
DescriptorWebCapable(e) ==
    /\ e.pkg \in {"null", "object"}
    /\ ~e.main \/ Truthy(e.browser)

----------------------------------------------------------------------------
\* folder f can be catalogued: it can be listed and its descriptor is read,
\* is an object and declares no main or a browser entry
Cataloguable(f) ==
    /\ ~extDisk.entries[f].isFile
    /\ extDisk.entries[f].listable
    /\ extDisk.entries[f].pkg = "object"
    /\ DescriptorWebCapable(extDisk.entries[f])

\* C11 (as claimed): discovery as a whole never fails: the catalog promise is
\* never rejected, whatever the extensions directory holds, and when it is
\* fulfilled an unreadable folder or malformed descriptor has removed only
\* its own extension: every other one is catalogued.
C11_DiscoveryNeverFails ==
    /\ builtinExtensionsPromise # "rejected"
    /\ builtinExtensionsPromise = "fulfilled" =>
          \A f \in Folders : Cataloguable(f) => f \in Catalogued

----------------------------------------------------------------------------
\* the parameters outside the well-known keys in the order they occur in the
\* URL, each key once with its first value
RECURSIVE EncounterOrderExtras(_, _)
EncounterOrderExtras(query, seen) ==
    IF query = <<>> THEN <<>>
    ELSE LET key == Head(query)[1]
         IN  IF key \in {wellKnownKeys[i] : i \in 1..6} \/ key \in seen
             THEN EncounterOrderExtras(Tail(query), seen)
             ELSE <<Head(query)>> \o EncounterOrderExtras(Tail(query), seen \cup {key})

\* key=value pairs, the first with nothing before it, the others after '&'
RECURSIVE JoinPairs(_)
JoinPairs(pairs) ==
    IF pairs = <<>> THEN <<>>
    ELSE IF Len(pairs) = 1 THEN pairs[1][1] \o <<"=">> \o pairs[1][2]
    ELSE JoinPairs(SubSeq(pairs, 1, Len(pairs) - 1))
            \o <<"&">> \o pairs[Len(pairs)][1] \o <<"=">> \o pairs[Len(pairs)][2]

\* the query member of a serialized descriptor, undefined when it has none
QueryMemberOf(serialized) ==
    IF \E k \in DOMAIN serialized : serialized[k][1] = "query"
    THEN serialized[CHOOSE k \in DOMAIN serialized : serialized[k][1] = "query"][2]
    ELSE undefined

\* C12 (as claimed): the query stored by a /callback with a request id is the
\* vscode-query value, if any, followed by every parameter outside the six
\* well-known keys as key=value in encounter order, the first without a
\* separator and the others after '&'; undefined when there is neither.
C12_StoredQueryInEncounterOrder ==
    [][(/\ Accepted
        /\ reqs'[Len(reqs')].route = "callback"
        /\ \A n \in 1..6 : DecodedWellKnown(reqs'[Len(reqs')].url.query)[n] # URIError
        /\ Truthy(DecodedWellKnown(reqs'[Len(reqs')].url.query)[1]))
       => LET query == reqs'[Len(reqs')].url.query
              v == DecodedWellKnown(query)
              extras == EncounterOrderExtras(query, {})
              stored == mapCallbackUriToRequestId'[v[1]]
          IN  QueryMemberOf(stored) =
                 IF extras = <<>> THEN v[5]
                 ELSE (IF Truthy(v[5]) THEN v[5] ELSE <<>>) \o JoinPairs(extras)]_vars

----------------------------------------------------------------------------
\* the file a /static/ or /static-extension/ pathname names below root, when
\* the remainder after the prefix decodes
FileBelow(root, prefix, pathname) ==
    normalize(join(root, decodeURIComponent(substr(pathname, Len(prefix)))))

\* C13: a request is handled by the one route its pathname selects, in the
\* order /favicon.ico, /manifest.json, /static/ prefix, /static-extension/
\* prefix, /, /callback, /fetch-callback; any other pathname is answered 404
\* text/plain; only /callback and /fetch-callback change the mapping.
C13_RoutedByPathname ==
    [][IF Accepted
       THEN LET r == reqs'[Len(reqs')]
                p == r.url.pathname
                threw == r.res = Response(500, "text/plain", "Internal Server Error.")
            IN  /\ CASE p = <<"/", "f", "a", "v", "i", "c", "o", "n", ".", "i", "c", "o">> -> r.filePath = FAVICON
                     [] p = <<"/", "m", "a", "n", "i", "f", "e", "s", "t", ".", "j", "s", "o", "n">> ->
                           r.res.status = 200 /\ r.res.ctype = "application/json"
                     [] IsPrefix(<<"/", "s", "t", "a", "t", "i", "c", "/">>, p) ->
                           threw \/ r.filePath = FileBelow(APP_ROOT, <<"/", "s", "t", "a", "t", "i", "c", "/">>, p)
                     [] IsPrefix(<<"/", "s", "t", "a", "t", "i", "c", "-", "e", "x", "t", "e", "n", "s", "i", "o", "n", "/">>, p) ->
                           threw \/ r.filePath = FileBelow(EXTENSIONS_ROOT, <<"/", "s", "t", "a", "t", "i", "c", "-", "e", "x", "t", "e", "n", "s", "i", "o", "n", "/">>, p)
                     [] p = <<"/">> -> r.pc = "catalog" /\ r.res = NoResponse
                     [] p = <<"/", "c", "a", "l", "l", "b", "a", "c", "k">> ->
                           \/ r.filePath = CALLBACK_HTML
                           \/ r.res.status = 400
                           \/ r.pc = "rejected"
                     [] p = <<"/", "f", "e", "t", "c", "h", "-", "c", "a", "l", "l", "b", "a", "c", "k">> ->
                           \/ r.res.status = 200 /\ r.res.ctype = "text/json"
                           \/ r.res.status = 400
                     [] OTHER -> (r.res = Response(404, "text/plain", "Not found."))
                /\ (p \notin {<<"/", "c", "a", "l", "l", "b", "a", "c", "k">>, <<"/", "f", "e", "t", "c", "h", "-", "c", "a", "l", "l", "b", "a", "c", "k">>}
                      => mapCallbackUriToRequestId' = mapCallbackUriToRequestId)
       ELSE mapCallbackUriToRequestId' = mapCallbackUriToRequestId]_vars

\* /static without its slash is no route and answered 404, and /static/a.js
\* is served by the static route
C13_Witness ==
    \E i, j \in DOMAIN reqs :
        /\ reqs[i].url.pathname = <<"/", "s", "t", "a", "t", "i", "c">>
        /\ reqs[i].res = Response(404, "text/plain", "Not found.")
        /\ reqs[j].url.pathname = <<"/", "s", "t", "a", "t", "i", "c", "/", "a", ".", "j", "s">>
        /\ reqs[j].filePath = STATIC_JS /\ reqs[j].res.status = 200

----------------------------------------------------------------------------
\* C14 (as claimed): a /callback request with a non-empty vscode-requestId is
\* always answered 200 text/html with the confirmation document, and its
\* registration is in the mapping as soon as the handler has run.
C14_CallbackAnsweredHtml ==
    [][\A i \in DOMAIN reqs' :
          (/\ reqs'[i].route = "callback"
           /\ Truthy(getFirstQueryValue(reqs'[i].url.query, K_requestId)))
          => /\ reqs'[i].pc # "rejected"
             /\ reqs'[i].res.status # 0 =>
                   /\ reqs'[i].res.status = 200
                   /\ reqs'[i].res.ctype = "text/html"
             /\ i \notin DOMAIN reqs =>
                   LET id == decodeURIComponent(getFirstQueryValue(reqs'[i].url.query, K_requestId))
                   IN  /\ id \in DOMAIN mapCallbackUriToRequestId'
                       /\ mapCallbackUriToRequestId'[id] =
                             JSONstringify(Descriptor(reqs'[i].url.query))]_vars

----------------------------------------------------------------------------
\* C15 (as claimed): only / requests wait for the catalog, the requests of
\* the other routes never do, and every / request that waits for it is
\* eventually answered 200 text/html.
C15_PendingRootEventuallyAnswered ==
    /\ [](\A j \in DOMAIN reqs : reqs[j].route # "root" => reqs[j].pc # "catalog")
    /\ \A i \in 1..MaxFileReq :
          (i \in DOMAIN reqs /\ reqs[i].route = "root" /\ reqs[i].pc = "catalog")
             ~> (/\ i \in DOMAIN reqs
                 /\ reqs[i].res.status = 200
                 /\ reqs[i].res.ctype = "text/html")

----------------------------------------------------------------------------
\* C16: an entry of the mapping changes or leaves only in the step of a
\* /fetch-callback for its own request id, which removes it, or of a
\* /callback for its own request id that registers, which overwrites it; an
\* entry appears only in the step of a registering /callback for its id.
\* The entries of every other request id stay as they are.
C16_OnlyOwnIdChangesEntry ==
    [][LET old == mapCallbackUriToRequestId
           new == mapCallbackUriToRequestId'
           r == reqs'[Len(reqs')]
           registersId(R) ==
               /\ Accepted /\ r.route = "callback"
               /\ r.pc # "rejected" /\ r.res.status # 400
               /\ Truthy(getFirstQueryValue(r.url.query, K_requestId))
               /\ decodeURIComponent(getFirstQueryValue(r.url.query, K_requestId)) = R
           fetchesId(R) ==
               /\ Accepted /\ r.route = "fetch-callback"
               /\ getFirstQueryValue(r.url.query, K_requestId) = R
       IN  /\ \A R \in DOMAIN old :
                 /\ R \notin DOMAIN new => fetchesId(R)
                 /\ (R \in DOMAIN new /\ new[R] # old[R]) => registersId(R)
           /\ \A R \in DOMAIN new \ DOMAIN old : registersId(R)]_vars

\* a and b are registered and a is retrieved: the entry of b is still the
\* descriptor its /callback serialized
C16_Witness ==
    \E i, j, k \in DOMAIN reqs :
        /\ Registers(i, <<"a">>) /\ Registers(j, <<"b">>) /\ Fetches(k, <<"a">>)
        /\ i < k /\ j < k
        /\ reqs[k].res.data = SerializedDescriptorOf(i)
        /\ <<"a">> \notin DOMAIN mapCallbackUriToRequestId
        /\ <<"b">> \in DOMAIN mapCallbackUriToRequestId
        /\ mapCallbackUriToRequestId[<<"b">>] = SerializedDescriptorOf(j)

----------------------------------------------------------------------------
\* C17: after /callback requests i and k register R with D1 and then D2 with
\* no retrieval of R between them, the next /fetch-callback for R is answered
\* D2, no later retrieval is answered D1 unless D1 is registered again, and
\* the retrievals that follow with no new registration are answered nothing:
\* the mapping holds one entry for R.
C17_SecondRegistrationOverwrites ==
    \A R \in RequestIds : \A i, k, j \in DOMAIN reqs :
        (/\ i < k /\ k < j
         /\ Registers(i, R) /\ Registers(k, R) /\ Fetches(j, R)
         /\ NoFetchBetween(i, j, R) /\ NoRegistrationBetween(k, j, R))
        => /\ reqs[j].res.status = 200
           /\ reqs[j].res.data = SerializedDescriptorOf(k)
           /\ \A n \in DOMAIN reqs :
                 (j < n /\ Fetches(n, R) /\ NoRegistrationBetween(k, n, R))
                 => EmptyBody(reqs[n].res)

\* two different descriptors are registered for a and the retrieval is
\* answered the second one
C17_Witness ==
    \E i, k, j \in DOMAIN reqs :
        /\ i < k /\ k < j
        /\ Registers(i, <<"a">>) /\ Registers(k, <<"a">>) /\ Fetches(j, <<"a">>)
        /\ SerializedDescriptorOf(i) # SerializedDescriptorOf(k)
        /\ reqs[j].res.data = SerializedDescriptorOf(k)
        /\ <<"a">> \notin DOMAIN mapCallbackUriToRequestId

----------------------------------------------------------------------------
\* serveFile has answered request i
AnsweredByServeFile(i) == Served(i) /\ reqs[i].res.status # 0

\* the 304 answer of lines 414-417: no header and no body
NotModifiedAnswer(i) ==
    /\ reqs[i].res.status = 304
    /\ reqs[i].url.inm = etag(reqs[i].stat)
    /\ reqs[i].res.etag = undefined /\ reqs[i].res.ctype = ""
    /\ EmptyBody(reqs[i].res)

\* C18 (as claimed): every response of serveFile sets the Etag header, the
\* only exception being the 304 answer to a matching If-None-Match, which has
\* no body and no header.
C18_EveryResponseHasEtag ==
    \A i \in DOMAIN reqs :
        AnsweredByServeFile(i) =>
            \/ NotModifiedAnswer(i)
            \/ reqs[i].res.status # 304 /\ reqs[i].res.etag # undefined

\* C18 (amended): every 200 response of serveFile sets the Etag header to the
\* token of the stat; the 304 answer to a matching If-None-Match has no body
\* and no header; the 400 and 404 answers are text/plain with no Etag.
C18_EtagOn200Only ==
    \A i \in DOMAIN reqs :
        AnsweredByServeFile(i) =>
            \/ NotModifiedAnswer(i)
            \/ /\ reqs[i].res.status = 200
               /\ reqs[i].res.etag = etag(reqs[i].stat)
               /\ reqs[i].res.etag # undefined
            \/ /\ reqs[i].res.status \in {400, 404}
               /\ reqs[i].res.etag = undefined
               /\ reqs[i].res.ctype = "text/plain"

\* one file is served with its token, a missing one is answered 404 with no
\* Etag
C18_Witness ==
    \E i, j \in DOMAIN reqs :
        /\ AnsweredByServeFile(i) /\ AnsweredByServeFile(j)
        /\ reqs[i].res.status = 200
        /\ reqs[i].res.etag = etag(stat(InitialFs, reqs[i].filePath))
        /\ reqs[j].res.status = 404 /\ reqs[j].res.etag = undefined

----------------------------------------------------------------------------
\* C19 (as claimed): /callback and /fetch-callback derive the same key from
\* the same vscode-requestId value, so a /fetch-callback that directly follows
\* a registering /callback with the same value is answered its descriptor.
C19_SameKeyFromSameValue ==
    \A i \in DOMAIN reqs :
        (IsCallback(i) /\ Registers(i, DecodedWellKnown(reqs[i].url.query)[1])) =>
            /\ DecodedWellKnown(reqs[i].url.query)[1] = RequestIdOf(i)
            /\ (/\ i + 1 \in DOMAIN reqs
                /\ IsFetch(i + 1)
                /\ RequestIdOf(i + 1) = RequestIdOf(i))
               => reqs[i + 1].res.data = SerializedDescriptorOf(i)

----------------------------------------------------------------------------
\* the file a /static-extension/ request names
ExtensionFileOf(i) ==
    FileBelow(EXTENSIONS_ROOT, <<"/", "s", "t", "a", "t", "i", "c", "-", "e", "x", "t", "e", "n", "s", "i", "o", "n", "/">>, reqs[i].url.pathname)

\* C20: a /static-extension/ request is checked against the application
\* root: a path that leaves the extensions root and stays inside the
\* application root is not answered 400 but stat'ed and answered 200, 304 or
\* 404; a path that leaves the application root is answered 400.
C20_ExtensionCheckedAgainstAppRoot ==
    \A i \in DOMAIN reqs :
        (reqs[i].route = "static-extension" /\ Served(i)) =>
            /\ reqs[i].filePath = ExtensionFileOf(i)
            /\ IF IsPrefix(APP_ROOT \o <<sep>>, reqs[i].filePath)
               THEN /\ reqs[i].res.status \in {0, 200, 304, 404}
                    /\ "stat" \in reqs[i].io
                    /\ reqs[i].pc = "stat" <=> reqs[i].res.status = 0
               ELSE /\ reqs[i].res.status = 400
                    /\ reqs[i].io = {}

\* /static-extension/../a.js is served from the application root, and
\* /static-extension/../../w2/s.js is answered 400
C20_Witness ==
    \E i, j \in DOMAIN reqs :
        /\ reqs[i].url.pathname = <<"/", "s", "t", "a", "t", "i", "c", "-", "e", "x", "t", "e", "n", "s", "i", "o", "n", "/", ".", ".", "/", "a", ".", "j", "s">>
        /\ ~IsPrefix(EXTENSIONS_ROOT \o <<sep>>, reqs[i].filePath)
        /\ reqs[i].filePath = STATIC_JS
        /\ reqs[i].res.status = 200 /\ reqs[i].stream = "ended"
        /\ reqs[j].url.pathname = <<"/", "s", "t", "a", "t", "i", "c", "-", "e", "x", "t", "e", "n", "s", "i", "o", "n", "/", ".", ".", "/", ".", ".", "/", "w", "2", "/", "s", ".", "j", "s">>
        /\ reqs[j].res.status = 400

====
